---- MODULE Spec2Model ----
(***************************************************************************)
(* A model of src/models/ConvNet2D_numpy.py: the layers Conv2d, Pooling    *)
(* and FullyConnected with their forward and backward passes, and the      *)
(* constructor and parameter update of ConvNet2D.                          *)
(*                                                                         *)
(* One object is under test at a time (variable layer), fed the batch     *)
(* input on every forward call, as fit feeds the same X in every          *)
(* iteration.  Every action is one complete method call: its outcome      *)
(* ("ok" or the Python exception the call ends with) and its return value *)
(* are recorded in call, the cache the latest forward returned in kept,   *)
(* the fc_weights and fc_biases of the ConvNet2D that owns a Conv2d layer *)
(* in net, and the number of parameter updates so far in nupd.            *)
(*                                                                         *)
(* numpy's float64 values are modelled by exact rationals <<num, den>>     *)
(* (den > 0, lowest terms) wherever the code divides; rounding is not      *)
(* modelled.  Integer-valued tensors are kept as integers.                 *)
(***************************************************************************)
EXTENDS Integers, Sequences, FiniteSets, TLC

VARIABLES layer, input, kept, call, net, nupd

vars == <<layer, input, kept, call, net, nupd>>

(***************************************************************************)
(* Bounds of the model.                                                    *)
(***************************************************************************)
MaxDim    == 3   \* largest input height and width
MaxCh     == 2   \* largest channel count, filter count and FC dimension
MaxKernel == 2   \* largest kernel_size and pooling window f
MaxStride == 2   \* largest stride
MaxSeed   == 1   \* seeds 0..MaxSeed of the generated tensor samples
MaxUpd    == 1   \* parameter updates per run
MaxLayers == 2   \* longest hyperparameter list given to ConvNet2D

(***************************************************************************)
(* Arithmetic.                                                             *)
(***************************************************************************)
Abs(x) == IF x < 0 THEN -x ELSE x

Max2(x, y) == IF x >= y THEN x ELSE y

RECURSIVE GCD(_, _)
GCD(a, b) == IF b = 0 THEN a ELSE GCD(b, a % b)

\* the rational n/d (d > 0) in lowest terms
Rat(n, d) == LET g == GCD(Abs(n), d) IN <<n \div g, d \div g>>

RInt(n) == <<n, 1>>

RAdd(x, y) == Rat(x[1] * y[2] + y[1] * x[2], x[2] * y[2])

RSub(x, y) == Rat(x[1] * y[2] - y[1] * x[2], x[2] * y[2])

RMul(x, y) == Rat(x[1] * y[1], x[2] * y[2])

\* x / k for an integer k > 0
RDivInt(x, k) == Rat(x[1], x[2] * k)

\* Python's int() of the float n/d (d > 0): truncation towards zero
PyInt(n, d) == IF n >= 0 THEN n \div d ELSE -((-n) \div d)

(***************************************************************************)
(* Tensors: a record [shape, v], shape the tuple of dimensions and v the   *)
(* function from the (0-based) index tuples to the values.                 *)
(***************************************************************************)
Idx4(shape) ==
    (0 .. shape[1] - 1) \X (0 .. shape[2] - 1) \X (0 .. shape[3] - 1) \X (0 .. shape[4] - 1)

Idx2(shape) == (0 .. shape[1] - 1) \X (0 .. shape[2] - 1)

\* np.zeros(shape) of a 4-d shape
zeros4(shape) == [shape |-> shape, v |-> [x \in Idx4(shape) |-> 0]]

\* the k-th index tuple (k >= 0) of the nested loops "for i, for h, for w, for c"
\* over a volume of this shape
LoopPos(shape, k) ==
    << k \div (shape[2] * shape[3] * shape[4]),
       (k \div (shape[3] * shape[4])) % shape[2],
       (k \div shape[4]) % shape[3],
       k % shape[4] >>

Cells(shape) == shape[1] * shape[2] * shape[3] * shape[4]

\* g[lo] + ... + g[hi] for an integer-valued function g
RECURSIVE SumIntRange(_, _, _)
SumIntRange(g, lo, hi) ==
    IF lo > hi THEN 0
    ELSE IF lo = hi THEN g[lo]
    ELSE LET mid == (lo + hi) \div 2
         IN  SumIntRange(g, lo, mid) + SumIntRange(g, mid + 1, hi)

\* g[lo] + ... + g[hi] for a rational-valued function g
RECURSIVE SumRatRange(_, _, _)
SumRatRange(g, lo, hi) ==
    IF lo > hi THEN RInt(0)
    ELSE IF lo = hi THEN g[lo]
    ELSE LET mid == (lo + hi) \div 2
         IN  RAdd(SumRatRange(g, lo, mid), SumRatRange(g, mid + 1, hi))

\* the sum of the integer volume f (of this shape) over the index tuples in S
SumInt(f, shape, S) ==
    SumIntRange([k \in 0 .. Cells(shape) - 1 |->
                    IF LoopPos(shape, k) \in S THEN f[LoopPos(shape, k)] ELSE 0],
                0, Cells(shape) - 1)

\* the sum of the rational volume f (of this shape) over the index tuples in S
SumRat(f, shape, S) ==
    SumRatRange([k \in 0 .. Cells(shape) - 1 |->
                    IF LoopPos(shape, k) \in S THEN f[LoopPos(shape, k)] ELSE RInt(0)],
                0, Cells(shape) - 1)

NoCache == [kind |-> "none"]

NoCall == [op |-> "none", outcome |-> "none"]

NoNet == [kind |-> "none"]

\* batch sizes of the sampled inputs
Batches == {1, 2}

\* a generated integer volume: the sample of this shape with this seed
Sample4(shape, seed, modulus, shift) ==
    [shape |-> shape,
     v |-> [x \in Idx4(shape) |->
              (((seed + 2) * (1 + 11 * x[1] + 3 * x[2] + 5 * x[3] + 7 * x[4])) % modulus) - shift]]

\* the volume of this shape with every cell equal to val
Const4(shape, val) == [shape |-> shape, v |-> [x \in Idx4(shape) |-> val]]

\* upstream gradients shaped like a forward output
Grads(shape) ==
    {Sample4(shape, g, 7, 2) : g \in 0 .. MaxSeed} \cup {Const4(shape, 3), Const4(shape, 4)}

(***************************************************************************)
(* class Pooling                                                           *)
(***************************************************************************)
\* Pooling.__init__(f, stride, mode)
Pooling_init(f, stride, mode) ==
    [kind |-> "Pooling", hparameters |-> [f |-> f, stride |-> stride], mode |-> mode]

PoolingLayers ==
    {Pooling_init(f, stride, mode) :
        f \in 1 .. MaxKernel, stride \in 1 .. MaxStride, mode \in {"max", "average"}}

\* the two 2x2 windows of the documented scenarios, and the generated samples
PoolingInputs ==
    { [shape |-> <<1, 2, 2, 1>>,
       v |-> [x \in Idx4(<<1, 2, 2, 1>>) |->
                IF x[2] = 0 THEN 5 ELSE IF x[3] = 0 THEN 1 ELSE 2]],
      [shape |-> <<1, 2, 2, 1>>,
       v |-> [x \in Idx4(<<1, 2, 2, 1>>) |-> 1 + 2 * x[2] + x[3]]] }
    \cup
    { Sample4(<<m, H, W, C>>, s, 4, 0) :
        m \in Batches, H \in 1 .. MaxDim, W \in 1 .. MaxDim, C \in 1 .. MaxCh,
        s \in 0 .. MaxSeed }

\* the cells of the input that the window of output position p = (i, h, w, c)
\* covers: rows vert_start..vert_end-1, columns horiz_start..horiz_end-1
InWindow(x, p, f, stride) ==
    /\ x[1] = p[1]
    /\ x[4] = p[4]
    /\ p[2] * stride <= x[2] /\ x[2] < p[2] * stride + f
    /\ p[3] * stride <= x[3] /\ x[3] < p[3] * stride + f

Window(shape, p, f, stride) == {x \in Idx4(shape) : InWindow(x, p, f, stride)}

\* np.max(a_prev_slice)
WindowMax(A_prev, p, f, stride) ==
    LET vals == {A_prev.v[x] : x \in Window(A_prev.shape, p, f, stride)}
    IN  CHOOSE v \in vals : \A u \in vals : u <= v

\* np.mean(a_prev_slice)
WindowMean(A_prev, p, f, stride) ==
    LET win == Window(A_prev.shape, p, f, stride)
    IN  Rat(SumInt(A_prev.v, A_prev.shape, win), Cardinality(win))

\* the output shape Pooling.forward computes
pool_out_shape(self, A_prev) ==
    LET f == self.hparameters.f
        stride == self.hparameters.stride
    IN  << A_prev.shape[1],
           PyInt(stride + (A_prev.shape[2] - f), stride),
           PyInt(stride + (A_prev.shape[3] - f), stride),
           A_prev.shape[4] >>

\* Pooling.forward(A_prev): [outcome, A, cache]
Pooling_forward(self, A_prev) ==
    LET f == self.hparameters.f
        stride == self.hparameters.stride
        oshape == pool_out_shape(self, A_prev)
    IN  IF oshape[2] < 0 \/ oshape[3] < 0
        THEN [outcome |-> "ValueError", line |-> 337]
        ELSE [outcome |-> "ok",
              A |-> [shape |-> oshape,
                     v |-> [p \in Idx4(oshape) |->
                              IF self.mode = "max"
                              THEN RInt(WindowMax(A_prev, p, f, stride))
                              ELSE WindowMean(A_prev, p, f, stride)]],
              cache |-> [kind |-> "Pooling", A_prev |-> A_prev,
                         hparameters |-> self.hparameters]]

\* a mask that marks only the first maximum of the window (in row-major order)
max_mask_first(A_prev, p, f, stride, x) ==
    /\ A_prev.v[x] = WindowMax(A_prev, p, f, stride)
    /\ \A y \in Window(A_prev.shape, p, f, stride) :
          A_prev.v[y] = A_prev.v[x] =>
             (x[2] < y[2] \/ (x[2] = y[2] /\ x[3] <= y[3]))

\* mask = (a_prev_slice == np.max(a_prev_slice)), at the cell x of the window
max_mask(A_prev, p, f, stride, x) ==
    A_prev.v[x] = WindowMax(A_prev, p, f, stride)

\* an accumulation that overwrites the cell instead of adding to it
accumulate_overwrite(old, add) == add

\* dA_prev[...] += add, at one cell
accumulate(old, add) == RAdd(old, add)

\* what one iteration of the loop of Pooling.backward adds to the cell x of the
\* window of position p
pool_contribution(self, cache, dA, p, x) ==
    LET f == cache.hparameters.f
        stride == cache.hparameters.stride
    IN  IF self.mode = "max"
        THEN IF max_mask(cache.A_prev, p, f, stride, x)
             THEN RInt(dA.v[p]) ELSE RInt(0)
        ELSE RDivInt(RInt(dA.v[p]), f * f)

\* the loop of Pooling.backward from its k-th iteration on, buf being dA_prev
RECURSIVE pool_back_loop(_, _, _, _, _)
pool_back_loop(self, cache, dA, k, buf) ==
    IF k >= Cells(dA.shape) THEN buf
    ELSE LET p == LoopPos(dA.shape, k)
             f == cache.hparameters.f
             stride == cache.hparameters.stride
         IN  pool_back_loop(self, cache, dA, k + 1,
                [x \in DOMAIN buf |->
                    IF InWindow(x, p, f, stride)
                    THEN accumulate(buf[x], pool_contribution(self, cache, dA, p, x))
                    ELSE buf[x]])

\* Pooling.backward(dA, cache): [outcome, dA_prev]
Pooling_backward(self, dA, cache) ==
    [outcome |-> "ok",
     dA_prev |-> [shape |-> cache.A_prev.shape,
                  v |-> pool_back_loop(self, cache, dA, 0,
                           [x \in Idx4(cache.A_prev.shape) |-> RInt(0)])]]

PoolForward ==
    /\ layer.kind = "Pooling"
    /\ LET r == Pooling_forward(layer, input)
       IN  /\ call' = [op |-> "Pooling.forward", ret |-> r, outcome |-> r.outcome]
           /\ kept' = IF r.outcome = "ok" THEN r.cache ELSE NoCache
    /\ UNCHANGED <<layer, input, net, nupd>>

PoolBackward ==
    /\ layer.kind = "Pooling"
    /\ call.op = "Pooling.forward"
    /\ call.outcome = "ok"
    /\ \E dA \in Grads(call.ret.A.shape) :
          LET r == Pooling_backward(layer, dA, kept)
          IN  call' = [op |-> "Pooling.backward", dA |-> dA, cache |-> kept, ret |-> r,
                       outcome |-> r.outcome]
    /\ UNCHANGED <<layer, input, kept, net, nupd>>

(***************************************************************************)
(* class FullyConnected.  Matrices are records [shape, v] over Idx2 with   *)
(* rational entries.                                                       *)
(***************************************************************************)
\* the matrix of this shape whose entry (r, c) is the integer F[<<r, c>>]
IntMat(shape, F) == [shape |-> shape, v |-> [x \in Idx2(shape) |-> RInt(F[x])]]

\* X.T
transpose(A) ==
    [shape |-> <<A.shape[2], A.shape[1]>>,
     v |-> [x \in Idx2(<<A.shape[2], A.shape[1]>>) |-> A.v[<<x[2], x[1]>>]]]

\* np.dot(A, B) of two matrices with A.shape[2] = B.shape[1]
dot(A, B) ==
    [shape |-> <<A.shape[1], B.shape[2]>>,
     v |-> [x \in Idx2(<<A.shape[1], B.shape[2]>>) |->
              SumRatRange([n \in 0 .. A.shape[2] - 1 |->
                              RMul(A.v[<<x[1], n>>], B.v[<<n, x[2]>>])],
                          0, A.shape[2] - 1)]]

\* A - B of two matrices of one shape
mat_sub(A, B) ==
    [shape |-> A.shape, v |-> [x \in Idx2(A.shape) |-> RSub(A.v[x], B.v[x])]]

\* A + b, the column b broadcast over the columns of A
mat_add_col(A, b) ==
    [shape |-> A.shape, v |-> [x \in Idx2(A.shape) |-> RAdd(A.v[x], b.v[<<x[1], 0>>])]]

\* A / m
mat_div(A, m) ==
    [shape |-> A.shape, v |-> [x \in Idx2(A.shape) |-> RDivInt(A.v[x], m)]]

\* np.sum(A, axis=1, keepdims=True)
sum_axis1(A) ==
    [shape |-> <<A.shape[1], 1>>,
     v |-> [x \in Idx2(<<A.shape[1], 1>>) |->
              SumRatRange([n \in 0 .. A.shape[2] - 1 |-> A.v[<<x[1], n>>]],
                          0, A.shape[2] - 1)]]

\* FullyConnected.__init__(input_dim, output_dim), the random W being the
\* sample with this seed
FullyConnected_init(input_dim, output_dim, seed) ==
    [kind |-> "FullyConnected", input_dim |-> input_dim, output_dim |-> output_dim,
     W |-> IntMat(<<output_dim, input_dim>>,
                  [x \in Idx2(<<output_dim, input_dim>>) |->
                      (((seed + 3) * (2 + 3 * x[1] + 5 * x[2])) % 5) - 2]),
     b |-> IntMat(<<output_dim, 1>>, [x \in Idx2(<<output_dim, 1>>) |-> 0])]

FullyConnectedLayers ==
    {FullyConnected_init(n_x, n_y, s) :
        n_x \in 1 .. MaxCh, n_y \in 1 .. MaxCh, s \in 0 .. MaxSeed}

\* input batches X of shape (rows, m)
FullyConnectedInputs ==
    {IntMat(<<n, m>>, [x \in Idx2(<<n, m>>) |->
                          (((s + 2) * (1 + 3 * x[1] + 7 * x[2])) % 5) - 1]) :
        n \in 1 .. MaxCh, m \in Batches, s \in 0 .. MaxSeed}

\* a column of n probabilities that sum to 1: (1), (7/10, 3/10), (1/2, 3/10, 1/5), ...
\* rotated by r
Probability(n, j, r) ==
    LET k == (j + r) % n
    IN  IF n = 1 THEN <<1, 1>>
        ELSE IF n = 2 THEN (IF k = 0 THEN <<7, 10>> ELSE <<3, 10>>)
        ELSE IF k = 0 THEN <<1, 2>>
        ELSE IF k = 1 THEN <<3, 10>>
        ELSE Rat(2, 10 * (n - 2))

\* probabilities AL of shape (n_y, m)
Probabilities(n_y, m) ==
    {[shape |-> <<n_y, m>>,
      v |-> [x \in Idx2(<<n_y, m>>) |-> Probability(n_y, x[1], r * x[2])]] : r \in 0 .. 1}

\* one-hot labels Y of shape (n_y, m)
Labels(n_y, m) ==
    {IntMat(<<n_y, m>>, [x \in Idx2(<<n_y, m>>) |->
                            IF x[1] = (t + x[2]) % n_y THEN 1 ELSE 0]) : t \in 0 .. 1}

\* FullyConnected.forward_linear(X): [outcome, Z, linear_cache]
FullyConnected_forward_linear(self, X) ==
    IF X.shape[1] # self.W.shape[2]
    THEN [outcome |-> "ValueError", line |-> 442]
    ELSE [outcome |-> "ok",
          Z |-> mat_add_col(dot(self.W, X), self.b),
          linear_cache |-> [X |-> X, W |-> self.W, b |-> self.b]]

\* FullyConnected.forward_activation(Z): the name softmax is not defined at
\* module level (it is a static method of the class), so the call raises
FullyConnected_forward_activation(self, Z) == [outcome |-> "NameError", line |-> 451]

\* FullyConnected.forward(A_prev): [outcome, ...]
FullyConnected_forward(self, A_prev) ==
    LET lin == FullyConnected_forward_linear(self, A_prev)
    IN  IF lin.outcome # "ok" THEN lin
        ELSE FullyConnected_forward_activation(self, lin.Z)

\* a weight gradient that is not averaged over the batch
fc_dW_sum(dAL, X, m) == dot(dAL, transpose(X))

\* dW = np.dot(dAL, X.T) / m
fc_dW(dAL, X, m) == mat_div(dot(dAL, transpose(X)), m)

\* a backward pass that applies the gradient step itself
backward_self_sgd(self, dW, db, learning_rate) ==
    [self EXCEPT !.W = mat_sub(self.W, [shape |-> dW.shape,
                                        v |-> [x \in Idx2(dW.shape) |->
                                                 RMul(RInt(learning_rate), dW.v[x])]]),
                 !.b = mat_sub(self.b, [shape |-> db.shape,
                                        v |-> [x \in Idx2(db.shape) |->
                                                 RMul(RInt(learning_rate), db.v[x])]])]

\* the layer after FullyConnected.backward: the method assigns to no attribute
\* of self, and learning_rate is not used
backward_self(self, dW, db, learning_rate) == self

\* FullyConnected.backward(AL, Y, caches, learning_rate):
\* [outcome, dA_prev, dW, db, self]
FullyConnected_backward(self, AL, Y, caches, learning_rate) ==
    LET m == AL.shape[2]
        X == caches.linear_cache.X
        W == caches.linear_cache.W
        dAL == mat_sub(AL, Y)
    IN  [outcome |-> "ok",
         dA_prev |-> dot(transpose(W), dAL),
         dW |-> fc_dW(dAL, X, m),
         db |-> mat_div(sum_axis1(dAL), m),
         self |-> backward_self(self, fc_dW(dAL, X, m), mat_div(sum_axis1(dAL), m),
                                learning_rate)]

FCForward ==
    /\ layer.kind = "FullyConnected"
    /\ LET r == FullyConnected_forward(layer, input)
       IN  /\ call' = [op |-> "FullyConnected.forward", ret |-> r, outcome |-> r.outcome]
           /\ kept' = NoCache
    /\ UNCHANGED <<layer, input, net, nupd>>

FCForwardLinear ==
    /\ layer.kind = "FullyConnected"
    /\ LET r == FullyConnected_forward_linear(layer, input)
       IN  /\ call' = [op |-> "FullyConnected.forward_linear", ret |-> r,
                       outcome |-> r.outcome]
           /\ kept' = IF r.outcome = "ok"
                      THEN [kind |-> "FullyConnected", linear_cache |-> r.linear_cache,
                            activation_cache |-> r.Z]
                      ELSE NoCache
    /\ UNCHANGED <<layer, input, net, nupd>>

\* backward on the pair (linear_cache, activation_cache) that forward assembles
\* from what forward_linear returned
FCBackward ==
    /\ layer.kind = "FullyConnected"
    /\ call.op = "FullyConnected.forward_linear"
    /\ call.outcome = "ok"
    /\ \E AL \in Probabilities(layer.output_dim, input.shape[2]),
          Y \in Labels(layer.output_dim, input.shape[2]),
          learning_rate \in {1} :
          LET r == FullyConnected_backward(layer, AL, Y, kept, learning_rate)
          IN  /\ call' = [op |-> "FullyConnected.backward", AL |-> AL, Y |-> Y,
                          caches |-> kept, ret |-> r, outcome |-> r.outcome]
              /\ layer' = r.self
    /\ UNCHANGED <<input, kept, net, nupd>>

(***************************************************************************)
(* class Conv2d                                                            *)
(***************************************************************************)
\* Conv2d.__init__(in_channels, out_channels, kernel_size, stride, padding_mode,
\* padding), the random W and b being the integer samples with this seed
Conv2d_init(in_channels, out_channels, kernel_size, stride, padding_mode, padding, seed) ==
    [kind |-> "Conv2d", in_channels |-> in_channels, kernel_size |-> kernel_size,
     n_filters |-> out_channels,
     hparameters |-> [stride |-> stride, pad |-> padding],
     W |-> Sample4(<<kernel_size, kernel_size, in_channels, out_channels>>, seed, 5, 2),
     b |-> Sample4(<<1, 1, 1, out_channels>>, seed + 1, 3, 1)]

\* the layer of the documented scenario: one 3x3 filter of ones over one channel,
\* zero bias, stride 1, pad 0
OnesLayer ==
    [kind |-> "Conv2d", in_channels |-> 1, kernel_size |-> 3, n_filters |-> 1,
     hparameters |-> [stride |-> 1, pad |-> 0],
     W |-> Const4(<<3, 3, 1, 1>>, 1),
     b |-> Const4(<<1, 1, 1, 1>>, 0)]

\* the paddings of the sampled layers
Pads == {0, 1}

Conv2dLayers ==
    {Conv2d_init(cin, cout, f, stride, "zeros", pad, 0) :
        cin \in 1 .. MaxCh, cout \in 1 .. MaxCh, f \in 1 .. MaxKernel,
        stride \in 1 .. MaxStride, pad \in Pads}
    \cup {OnesLayer}

\* the 5x5 input of ones of the documented scenario, and the generated samples
Conv2dInputs ==
    {Const4(<<1, 5, 5, 1>>, 1)}
    \cup
    {Sample4(<<2, 2, 2, 1>>, 1, 5, 2)}
    \cup
    {Sample4(<<1, H, W, C>>, 0, 5, 2) :
        H \in 1 .. MaxDim, W \in 1 .. MaxDim, C \in 1 .. MaxCh}

\* Conv2d.zero_pad(X): np.pad by hparameters["pad"] on both spatial axes
zero_pad(self, X) ==
    LET pad == self.hparameters.pad
        shape == <<X.shape[1], X.shape[2] + 2 * pad, X.shape[3] + 2 * pad, X.shape[4]>>
    IN  [shape |-> shape,
         v |-> [x \in Idx4(shape) |->
                  IF /\ pad <= x[2] /\ x[2] < pad + X.shape[2]
                     /\ pad <= x[3] /\ x[3] < pad + X.shape[3]
                  THEN X.v[<<x[1], x[2] - pad, x[3] - pad, x[4]>>]
                  ELSE 0]]

\* the n-th index tuple of a 3-d array of this shape
Pos3(shape, n) == <<n \div (shape[2] * shape[3]), (n \div shape[3]) % shape[2], n % shape[3]>>

\* Conv2d.conv_single_step(slice, W, b): np.sum(np.multiply(slice, W) + b).
\* slice (f, f, n_C_prev of the input) and W (f, f, in_channels) are broadcast
\* against each other: a channel axis of length 1 is stretched, two different
\* lengths above 1 raise ValueError; b (shape (1, 1, 1)) is broadcast over the
\* product, so it is added to every element before the sum
conv_single_step(slice, W, b) ==
    LET Ca == slice.shape[3]
        Cw == W.shape[3]
        shape == <<slice.shape[1], slice.shape[2], Max2(Ca, Cw)>>
        N == shape[1] * shape[2] * shape[3]
    IN  IF Ca # Cw /\ Ca # 1 /\ Cw # 1
        THEN [outcome |-> "ValueError", line |-> 159]
        ELSE [outcome |-> "ok",
              value |-> SumIntRange(
                  [n \in 0 .. N - 1 |->
                      LET x == Pos3(shape, n)
                      IN  slice.v[<<x[1], x[2], IF Ca = 1 THEN 0 ELSE x[3]>>]
                             * W.v[<<x[1], x[2], IF Cw = 1 THEN 0 ELSE x[3]>>]
                          + b],
                  0, N - 1)]

\* Conv2d.ReLU(Z), the static method
ReLU(Z) == Max2(0, Z)

\* the call "ReLU(Z[i, h, w, c])" of line 219: inside a method the bare name
\* ReLU is looked up in the module's globals, where nothing defines it (the
\* static method is only reachable as self.ReLU or Conv2d.ReLU)
ReLU_call(Z) == [outcome |-> "NameError", line |-> 219]

\* a_slice_prev = A_prev_pad_i[vert_start:vert_end, horiz_start:horiz_end, :]
\* for the example p[1] and the output position (p[2], p[3])
a_slice(A_prev_pad, p, f, stride) ==
    [shape |-> <<f, f, A_prev_pad.shape[4]>>,
     v |-> [x \in (0 .. f - 1) \X (0 .. f - 1) \X (0 .. A_prev_pad.shape[4] - 1) |->
              A_prev_pad.v[<<p[1], p[2] * stride + x[1], p[3] * stride + x[2], x[3]>>]]]

\* self.W[:, :, :, c]
filter(W, c) ==
    [shape |-> <<W.shape[1], W.shape[2], W.shape[3]>>,
     v |-> [x \in (0 .. W.shape[1] - 1) \X (0 .. W.shape[2] - 1) \X (0 .. W.shape[3] - 1) |->
              W.v[<<x[1], x[2], x[3], c>>]]]

\* the output shape Conv2d.forward computes
conv_out_shape(self, A_prev) ==
    LET f == self.W.shape[1]
        stride == self.hparameters.stride
        pad == self.hparameters.pad
    IN  << A_prev.shape[1],
           ((A_prev.shape[2] - f + 2 * pad) \div stride) + 1,
           ((A_prev.shape[3] - f + 2 * pad) \div stride) + 1,
           self.W.shape[4] >>

\* the loop of Conv2d.forward from its k-th iteration on: [outcome, stored, Z, A],
\* Z and A being the local arrays when the loop ends or raises and stored the
\* number of cells of Z that line 217 has assigned by then
RECURSIVE conv_forward_loop(_, _, _, _, _)
conv_forward_loop(self, A_prev_pad, k, Z, A) ==
    IF k >= Cells(Z.shape) THEN [outcome |-> "ok", stored |-> k, Z |-> Z, A |-> A]
    ELSE LET p == LoopPos(Z.shape, k)
             z == conv_single_step(
                      a_slice(A_prev_pad, p, self.W.shape[1], self.hparameters.stride),
                      filter(self.W, p[4]),
                      self.b.v[<<0, 0, 0, p[4]>>])
         IN  IF z.outcome # "ok"
             THEN [outcome |-> z.outcome, line |-> z.line, stored |-> k, Z |-> Z, A |-> A]
             ELSE LET Z1 == [Z EXCEPT !.v[p] = z.value]
                      a == ReLU_call(z.value)
                  IN  IF a.outcome # "ok"
                      THEN [outcome |-> a.outcome, line |-> a.line, stored |-> k + 1,
                            Z |-> Z1, A |-> A]
                      ELSE conv_forward_loop(self, A_prev_pad, k + 1, Z1,
                                             [A EXCEPT !.v[p] = a.value])

\* Conv2d.forward(A_prev): [outcome, A, cache] when it returns, the cache being
\* the pair (conv_cache, activation_cache); [outcome, line, stored, Z, A] when
\* the loop raises
Conv2d_forward(self, A_prev) ==
    LET oshape == conv_out_shape(self, A_prev)
    IN  IF oshape[2] < 0 \/ oshape[3] < 0
        THEN [outcome |-> "ValueError", line |-> 191]
        ELSE LET r == conv_forward_loop(self, zero_pad(self, A_prev), 0,
                                        zeros4(oshape), zeros4(oshape))
             IN  IF r.outcome # "ok" THEN r
                 ELSE [outcome |-> "ok", A |-> r.A,
                       cache |-> << <<A_prev, self.W, self.b, self.hparameters>>, r.Z >>]

\* the call "self.zero_pad(A_prev, pad)" of line 265: zero_pad takes X alone, so
\* a call with two arguments raises before the body of zero_pad runs
zero_pad_call(self, X, pad) == [outcome |-> "TypeError", line |-> 265]

\* one iteration of the loop of Conv2d.backward, at output position
\* p = (i, h, w, c): lines 288-290 add W[:,:,:,c] * dA[p] to the window of the
\* padded input gradient, a_slice * dA[p] to dW[:,:,:,c] and dA[p] to db[:,:,:,c].
\* acc holds the arrays dA_prev_pad, dW and db
conv_back_step(cache, A_prev_pad, dA, p, acc) ==
    LET W == cache[2]
        f == W.shape[1]
        stride == cache[4].stride
        vert_start == p[2] * stride
        horiz_start == p[3] * stride
        Ca == A_prev_pad.shape[4]
    IN  [dA_prev_pad |->
            [x \in DOMAIN acc.dA_prev_pad |->
                IF /\ x[1] = p[1]
                   /\ vert_start <= x[2] /\ x[2] < vert_start + f
                   /\ horiz_start <= x[3] /\ x[3] < horiz_start + f
                THEN acc.dA_prev_pad[x]
                        + W.v[<<x[2] - vert_start, x[3] - horiz_start, x[4], p[4]>>] * dA.v[p]
                ELSE acc.dA_prev_pad[x]],
         dW |->
            [x \in DOMAIN acc.dW |->
                IF x[4] = p[4]
                THEN acc.dW[x]
                        + A_prev_pad.v[<<p[1], vert_start + x[1], horiz_start + x[2],
                                         IF Ca = 1 THEN 0 ELSE x[3]>>] * dA.v[p]
                ELSE acc.dW[x]],
         db |->
            [x \in DOMAIN acc.db |->
                IF x[4] = p[4] THEN acc.db[x] + dA.v[p] ELSE acc.db[x]]]

\* the loop of Conv2d.backward from its k-th iteration on
RECURSIVE conv_back_loop(_, _, _, _, _)
conv_back_loop(cache, A_prev_pad, dA, k, acc) ==
    IF k >= Cells(dA.shape) THEN acc
    ELSE conv_back_loop(cache, A_prev_pad, dA, k + 1,
                        conv_back_step(cache, A_prev_pad, dA, LoopPos(dA.shape, k), acc))

\* lines 293-296: the padded input gradient without its outer pad cells (for
\* pad = 0 the whole buffer), as an array of this shape
strip_pad(dA_prev_pad, shape, pad) ==
    [shape |-> shape,
     v |-> [x \in Idx4(shape) |-> dA_prev_pad[<<x[1], x[2] + pad, x[3] + pad, x[4]>>]]]

\* Conv2d.backward(dA, cache): [outcome, dA_prev, dW, db] when it returns.  The
\* cache is unpacked into four names, which raises ValueError on the pair that
\* forward returns; on a 4-tuple the call self.zero_pad(A_prev, pad) passes one
\* argument more than zero_pad takes.  dA_prev is allocated with the batch size
\* of dA and the channel count of W (lines 252, 257, 260); a_slice * dA[p] of
\* line 289 cannot be added to dW[:,:,:,c] unless the input has one channel or
\* as many as W
Conv2d_backward(self, dA, cache) ==
    IF Len(cache) # 4
    THEN [outcome |-> "ValueError", line |-> 250]
    ELSE LET A_prev == cache[1]
             W == cache[2]
             pad == cache[4].pad
             shape == <<dA.shape[1], A_prev.shape[2], A_prev.shape[3], W.shape[3]>>
             pshape == <<shape[1], shape[2] + 2 * pad, shape[3] + 2 * pad, shape[4]>>
             bshape == <<1, 1, 1, W.shape[4]>>
             padded == zero_pad_call(self, A_prev, pad)
         IN  IF padded.outcome # "ok"
             THEN [outcome |-> padded.outcome, line |-> padded.line]
             ELSE IF /\ Cells(dA.shape) > 0
                     /\ A_prev.shape[4] # W.shape[3]
                     /\ A_prev.shape[4] # 1
             THEN [outcome |-> "ValueError", line |-> 289]
             ELSE LET acc == conv_back_loop(cache, padded.value, dA, 0,
                                [dA_prev_pad |-> [x \in Idx4(pshape) |-> 0],
                                 dW |-> [x \in Idx4(W.shape) |-> 0],
                                 db |-> [x \in Idx4(bshape) |-> 0]])
                  IN  [outcome |-> "ok",
                       dA_prev |-> strip_pad(acc.dA_prev_pad, shape, pad),
                       dW |-> [shape |-> W.shape, v |-> acc.dW],
                       db |-> [shape |-> bshape, v |-> acc.db]]

ConvForward ==
    /\ layer.kind = "Conv2d"
    /\ LET r == Conv2d_forward(layer, input)
       IN  /\ call' = [op |-> "Conv2d.forward", ret |-> r, outcome |-> r.outcome]
           /\ kept' = IF r.outcome = "ok"
                      THEN [kind |-> "Conv2d", cache |-> r.cache]
                      ELSE NoCache
    /\ UNCHANGED <<layer, input, net, nupd>>

\* backward with the cache as forward returned it
ConvBackward ==
    /\ layer.kind = "Conv2d"
    /\ call.op = "Conv2d.forward"
    /\ call.outcome = "ok"
    /\ \E dA \in {Const4(call.ret.A.shape, 3)} :
          LET r == Conv2d_backward(layer, dA, kept.cache)
          IN  call' = [op |-> "Conv2d.backward", dA |-> dA, cache |-> kept.cache,
                       as_returned |-> TRUE, ret |-> r, outcome |-> r.outcome]
    /\ UNCHANGED <<layer, input, kept, net, nupd>>

\* backward with the conv_cache alone, the 4-tuple (A_prev, W, b, hparameters),
\* and a gradient shaped like the output of forward
ConvBackwardConvCache ==
    /\ layer.kind = "Conv2d"
    /\ call.op = "Conv2d.forward"
    /\ conv_out_shape(layer, input)[2] >= 0
    /\ conv_out_shape(layer, input)[3] >= 0
    /\ \E dA \in {Const4(conv_out_shape(layer, input), 3)} :
          LET conv_cache == <<input, layer.W, layer.b, layer.hparameters>>
              r == Conv2d_backward(layer, dA, conv_cache)
          IN  call' = [op |-> "Conv2d.backward", dA |-> dA, cache |-> conv_cache,
                       as_returned |-> FALSE, ret |-> r, outcome |-> r.outcome]
    /\ UNCHANGED <<layer, input, kept, net, nupd>>

(***************************************************************************)
(* class ConvNet2D                                                         *)
(***************************************************************************)
\* an optional list argument: None, or the list val
None == [is_none |-> TRUE, val |-> <<>>]

Some(val) == [is_none |-> FALSE, val |-> val]

\* the list of this length whose k-th element is F[k]
List(n, F) == [k \in 1 .. n |-> F[k]]

\* the lists of booleans of this length
Flags(n) == [1 .. n -> BOOLEAN]

\* constructor arguments: in_channels = 1, out_channels = 2, and lists of every
\* length up to MaxLayers, independently of each other
ConvNet2DArgs ==
    {[in_channels |-> 1, out_channels |-> 2,
      num_filters |-> List(a, [k \in 1 .. a |-> k]),
      filter_sizes |-> List(b, [k \in 1 .. b |-> 1]),
      strides |-> List(c, [k \in 1 .. c |-> 1]),
      paddings |-> List(d, [k \in 1 .. d |-> 1]),
      pooling |-> pooling,
      pool_size |-> pool_size] :
        a \in 0 .. MaxLayers, b \in 0 .. MaxLayers, c \in 0 .. MaxLayers,
        d \in 0 .. MaxLayers,
        pooling \in {None} \cup {Some(fl) : fl \in UNION {Flags(n) : n \in 0 .. MaxLayers}},
        pool_size \in {None} \cup {Some(List(n, [k \in 1 .. n |-> 2])) : n \in 0 .. MaxLayers}}

\* the loop of ConvNet2D.__init__ from its i-th iteration on (i counts from 1),
\* and line 30 after it, where the name X is not defined
RECURSIVE build_layers(_, _, _, _, _)
build_layers(args, i, in_channels, conv_layers, pooling_layers) ==
    IF i > Len(args.num_filters)
    THEN [outcome |-> "NameError", line |-> 30,
          conv_layers |-> conv_layers, pooling_layers |-> pooling_layers]
    ELSE LET \* the fifth positional argument of Conv2d is padding_mode: paddings[i]
             \* lands there and padding keeps its default 0
             conv == Conv2d_init(in_channels, args.num_filters[i], args.filter_sizes[i],
                                 args.strides[i], args.paddings[i], 0, 0)
             built == Append(conv_layers, conv)
         IN  IF args.pooling.is_none
             THEN build_layers(args, i + 1, args.num_filters[i], built, pooling_layers)
             ELSE IF i > Len(args.pooling.val)
             THEN [outcome |-> "IndexError", line |-> 27,
                   conv_layers |-> built, pooling_layers |-> pooling_layers]
             ELSE IF args.pooling.val[i]
             \* Pooling(pool_size[i]) lacks the required argument stride
             THEN [outcome |-> "TypeError", line |-> 28,
                   conv_layers |-> built, pooling_layers |-> pooling_layers]
             ELSE build_layers(args, i + 1, args.num_filters[i], built, pooling_layers)

\* ConvNet2D.__init__(...): [outcome, line, conv_layers, pooling_layers], the two
\* lists as they are when the constructor raises
ConvNet2D_init(args) ==
    IF ~ (/\ Len(args.num_filters) = Len(args.filter_sizes)
          /\ Len(args.filter_sizes) = Len(args.strides)
          /\ Len(args.strides) = Len(args.paddings))
    THEN [outcome |-> "AssertionError", line |-> 17,
          conv_layers |-> <<>>, pooling_layers |-> <<>>]
    ELSE IF ~ args.pooling.is_none /\ args.pool_size.is_none
    THEN [outcome |-> "TypeError", line |-> 18,
          conv_layers |-> <<>>, pooling_layers |-> <<>>]
    ELSE IF ~ args.pooling.is_none /\ Len(args.pooling.val) # Len(args.pool_size.val)
    THEN [outcome |-> "AssertionError", line |-> 18,
          conv_layers |-> <<>>, pooling_layers |-> <<>>]
    ELSE build_layers(args, 1, args.in_channels, <<>>, <<>>)

\* A - learning_rate * G, cell by cell
minus_scaled(A, learning_rate, G) ==
    [shape |-> A.shape, v |-> [x \in Idx4(A.shape) |-> A.v[x] - learning_rate * G.v[x]]]

\* ConvNet2D.update_parameters(grads, learning_rate) on a network whose
\* conv_layers holds the one layer conv: the layer and the network afterwards
update_parameters(conv, fc, grads, learning_rate) ==
    [conv |-> [conv EXCEPT !.W = minus_scaled(conv.W, learning_rate, grads.dW0),
                           !.b = minus_scaled(conv.b, learning_rate, grads.db0)],
     fc |-> [fc EXCEPT !.fc_weights = fc.fc_weights - learning_rate * grads.dW_fc,
                       !.fc_biases = fc.fc_biases - learning_rate * grads.db_fc]]

Construct ==
    /\ layer.kind = "ConvNet2D"
    /\ call = NoCall
    /\ LET r == ConvNet2D_init(input)
       IN  /\ call' = [op |-> "ConvNet2D.__init__", ret |-> r, outcome |-> r.outcome]
           /\ layer' = [kind |-> "ConvNet2D", conv_layers |-> r.conv_layers,
                        pooling_layers |-> r.pooling_layers]
    /\ UNCHANGED <<input, kept, net, nupd>>

UpdateParameters ==
    /\ layer.kind = "Conv2d"
    /\ nupd < MaxUpd
    /\ \E learning_rate \in {1} :
          LET grads == [dW0 |-> Sample4(layer.W.shape, nupd, 3, 1),
                        db0 |-> Const4(layer.b.shape, 1),
                        dW_fc |-> 1, db_fc |-> 1]
              r == update_parameters(layer, net, grads, learning_rate)
          IN  /\ layer' = r.conv
              /\ net' = r.fc
              /\ call' = [op |-> "ConvNet2D.update_parameters", grads |-> grads,
                          outcome |-> "ok"]
    /\ nupd' = nupd + 1
    /\ UNCHANGED <<input, kept>>

(***************************************************************************)
(* The specification.                                                      *)
(***************************************************************************)
Start ==
    /\ kept = NoCache
    /\ call = NoCall
    /\ nupd = 0

InitPooling ==
    /\ layer \in PoolingLayers
    /\ input \in PoolingInputs
    /\ net = NoNet
    /\ Start

NextPooling ==
    \/ PoolForward
    \/ PoolBackward

\* the Pooling layer alone, on every sampled input
SpecPooling == InitPooling /\ [][NextPooling]_vars

\* the Pooling layers on the 2x2 inputs
InitPoolingSmall ==
    /\ layer \in PoolingLayers
    /\ input \in {A \in PoolingInputs : A.shape = <<1, 2, 2, 1>>}
    /\ net = NoNet
    /\ Start

InitFC ==
    /\ layer \in FullyConnectedLayers
    /\ input \in FullyConnectedInputs
    /\ net = NoNet
    /\ Start

InitConv ==
    /\ layer \in Conv2dLayers
    /\ input \in Conv2dInputs
    /\ net = [kind |-> "ConvNet2D", fc_weights |-> 1, fc_biases |-> 0]
    /\ Start

InitNet ==
    /\ layer = [kind |-> "ConvNet2D"]
    /\ input \in ConvNet2DArgs
    /\ net = NoNet
    /\ Start

\* one object of any class
Init ==
    \/ InitPoolingSmall
    \/ InitFC
    \/ InitConv
    \/ InitNet

Next ==
    \/ PoolForward
    \/ PoolBackward
    \/ FCForward
    \/ FCForwardLinear
    \/ FCBackward
    \/ ConvForward
    \/ ConvBackward
    \/ ConvBackwardConvCache
    \/ UpdateParameters
    \/ Construct

Spec == Init /\ [][Next]_vars

(***************************************************************************)
(* Pooling.backward: what a completed call was given and returned.         *)
(***************************************************************************)
PoolBackDone == call.op = "Pooling.backward" /\ call.outcome = "ok"

\* the output positions whose window covers the input cell x
Covering(x) ==
    {p \in Idx4(call.dA.shape) :
        InWindow(x, p, call.cache.hparameters.f, call.cache.hparameters.stride)}

\* x holds the largest value among the cells the window of p covers
IsWindowMax(x, p) ==
    \A y \in Idx4(call.cache.A_prev.shape) :
        InWindow(y, p, call.cache.hparameters.f, call.cache.hparameters.stride)
            => call.cache.A_prev.v[y] <= call.cache.A_prev.v[x]

\* the input cells the window of the output position p covers
WindowOf(p) ==
    {x \in Idx4(call.cache.A_prev.shape) :
        InWindow(x, p, call.cache.hparameters.f, call.cache.hparameters.stride)}

(***************************************************************************)
(* C3: Pooling.backward in max mode: every input cell receives, from every *)
(* output position whose window covers it and in which its value equals    *)
(* the window maximum, that position's upstream gradient in full, and      *)
(* nothing from any other position.                                        *)
(***************************************************************************)
C3_MaxGradientToEveryMaximum ==
    (PoolBackDone /\ layer.mode = "max") =>
        /\ call.ret.dA_prev.shape = call.cache.A_prev.shape
        /\ \A x \in Idx4(call.cache.A_prev.shape) :
              call.ret.dA_prev.v[x] =
                 RInt(SumInt(call.dA.v, call.dA.shape, {p \in Covering(x) : IsWindowMax(x, p)}))

\* a max-mode backward pass over a window with two equal maxima and a non-zero
\* upstream gradient
C3_Witness ==
    /\ PoolBackDone
    /\ layer.mode = "max"
    /\ \E p \in Idx4(call.dA.shape) :
          /\ call.dA.v[p] # 0
          /\ \E x, y \in WindowOf(p) : x # y /\ IsWindowMax(x, p) /\ IsWindowMax(y, p)

(***************************************************************************)
(* C4: Pooling.backward in average mode: the input gradient at every cell  *)
(* is the sum, over the output positions whose window covers the cell, of  *)
(* the upstream gradient divided by f * f, so that overlapping windows add *)
(* up; and the input gradient sums to what the upstream gradient sums to.  *)
(***************************************************************************)
C4_AverageGradientAccumulates ==
    (PoolBackDone /\ layer.mode = "average") =>
        /\ call.ret.dA_prev.shape = call.cache.A_prev.shape
        /\ \A x \in Idx4(call.cache.A_prev.shape) :
              call.ret.dA_prev.v[x] =
                 Rat(SumInt(call.dA.v, call.dA.shape, Covering(x)),
                     call.cache.hparameters.f * call.cache.hparameters.f)
        /\ SumRat(call.ret.dA_prev.v, call.ret.dA_prev.shape, Idx4(call.ret.dA_prev.shape))
              = RInt(SumInt(call.dA.v, call.dA.shape, Idx4(call.dA.shape)))

\* an average-mode backward pass in which two overlapping windows (stride < f)
\* both send a non-zero gradient to one cell
C4_Witness ==
    /\ PoolBackDone
    /\ layer.mode = "average"
    /\ call.cache.hparameters.stride < call.cache.hparameters.f
    /\ \E x \in Idx4(call.cache.A_prev.shape) :
          \E p, q \in Covering(x) : p # q /\ call.dA.v[p] > 0 /\ call.dA.v[q] > 0

(***************************************************************************)
(* FullyConnected.backward: what a completed call was given.               *)
(***************************************************************************)
FCBackDone == call.op = "FullyConnected.backward" /\ call.outcome = "ok"

\* dZ[j, i] = AL[j, i] - Y[j, i]
dZ(j, i) == RSub(call.AL.v[<<j, i>>], call.Y.v[<<j, i>>])

(***************************************************************************)
(* C5: FullyConnected.backward returns dW = (AL - Y) X^T / m with the      *)
(* shape of W, db = the row sums of AL - Y over m with the shape of b, and *)
(* dA_prev = W^T (AL - Y) with the shape of X, for X and the snapshot W of *)
(* the cache and m the batch size.                                         *)
(***************************************************************************)
C5_FullyConnectedGradients ==
    FCBackDone =>
        LET X == call.caches.linear_cache.X
            W == call.caches.linear_cache.W
            b == call.caches.linear_cache.b
            m == X.shape[2]
            n_x == X.shape[1]
            n_y == W.shape[1]
        IN  /\ call.ret.dW.shape = W.shape
            /\ call.ret.db.shape = b.shape
            /\ call.ret.dA_prev.shape = X.shape
            /\ \A j \in 0 .. n_y - 1 : \A k \in 0 .. n_x - 1 :
                  call.ret.dW.v[<<j, k>>] =
                     RDivInt(SumRatRange([i \in 0 .. m - 1 |-> RMul(dZ(j, i), X.v[<<k, i>>])],
                                         0, m - 1), m)
            /\ \A j \in 0 .. n_y - 1 :
                  call.ret.db.v[<<j, 0>>] =
                     RDivInt(SumRatRange([i \in 0 .. m - 1 |-> dZ(j, i)], 0, m - 1), m)
            /\ \A k \in 0 .. n_x - 1 : \A i \in 0 .. m - 1 :
                  call.ret.dA_prev.v[<<k, i>>] =
                     SumRatRange([j \in 0 .. n_y - 1 |-> RMul(W.v[<<j, k>>], dZ(j, i))],
                                 0, n_y - 1)

\* a backward call on a batch of two examples whose first column has AL = (0.7, 0.3)
\* and Y = (1, 0), so dZ = (-0.3, 0.3) there, with a non-zero weight gradient
C5_Witness ==
    /\ FCBackDone
    /\ call.AL.shape = <<2, 2>>
    /\ call.AL.v[<<0, 0>>] = <<7, 10>> /\ call.AL.v[<<1, 0>>] = <<3, 10>>
    /\ call.Y.v[<<0, 0>>] = <<1, 1>> /\ call.Y.v[<<1, 0>>] = <<0, 1>>
    /\ dZ(0, 0) = <<-3, 10>> /\ dZ(1, 0) = <<3, 10>>
    /\ \E x \in Idx2(call.ret.dW.shape) : call.ret.dW.v[x] # <<0, 1>>
    /\ \E x \in Idx2(call.ret.dA_prev.shape) : call.ret.dA_prev.v[x] # <<0, 1>>

(***************************************************************************)
(* Conv2d.forward: what a call was given.                                  *)
(***************************************************************************)
ConvForwardDone == call.op = "Conv2d.forward"

\* the input has as many channels as the layer expects
ChannelsMatch == input.shape[4] = layer.in_channels

\* in - kernel + 2 * pad for an input height or width
Span(size) == size - layer.kernel_size + 2 * layer.hparameters.pad

\* the kernel fits into the padded input in both directions
SizesFit == Span(input.shape[2]) >= 0 /\ Span(input.shape[3]) >= 0

\* the zero-padded input at example i, row r, column q, channel k
Padded(i, r, q, k) ==
    LET pad == layer.hparameters.pad
    IN  IF /\ pad <= r /\ r < pad + input.shape[2]
           /\ pad <= q /\ q < pad + input.shape[3]
        THEN input.v[<<i, r - pad, q - pad, k>>]
        ELSE 0

\* the sum over the kernel x kernel x in_channels window of output position p
\* of the padded input times filter p[4]
WindowDot(p) ==
    LET f == layer.kernel_size
        stride == layer.hparameters.stride
        shape == <<f, f, layer.in_channels>>
    IN  SumIntRange([n \in 0 .. f * f * layer.in_channels - 1 |->
                        LET x == Pos3(shape, n)
                        IN  Padded(p[1], p[2] * stride + x[1], p[3] * stride + x[2], x[3])
                               * layer.W.v[<<x[1], x[2], x[3], p[4]>>]],
                    0, f * f * layer.in_channels - 1)

(***************************************************************************)
(* C1: Conv2d.forward on an input the kernel fits into, with the channel   *)
(* count the layer expects, stores in every cell of Z the window's dot     *)
(* product with the filter plus the bias once, and returns max(0, Z).      *)
(***************************************************************************)
C1_ForwardIsConvolutionBiasReLU ==
    (ConvForwardDone /\ ChannelsMatch /\ SizesFit) =>
        /\ \A k \in 0 .. call.ret.stored - 1 :
              LET p == LoopPos(call.ret.Z.shape, k)
              IN  call.ret.Z.v[p] = WindowDot(p) + layer.b.v[<<0, 0, 0, p[4]>>]
        /\ call.outcome = "ok"
        /\ \A p \in Idx4(call.ret.A.shape) :
              /\ call.ret.cache[2].v[p] = WindowDot(p) + layer.b.v[<<0, 0, 0, p[4]>>]
              /\ call.ret.A.v[p] = Max2(0, call.ret.cache[2].v[p])

(***************************************************************************)
(* C2: on such an input Conv2d.forward returns a volume of the batch size  *)
(* of the input, of height and width floor((in - kernel + 2 pad) / stride) *)
(* + 1, with one channel per filter.                                       *)
(***************************************************************************)
C2_ForwardOutputShape ==
    (ConvForwardDone /\ ChannelsMatch /\ SizesFit) =>
        /\ call.outcome = "ok"
        /\ call.ret.A.shape =
              << input.shape[1],
                 (Span(input.shape[2]) \div layer.hparameters.stride) + 1,
                 (Span(input.shape[3]) \div layer.hparameters.stride) + 1,
                 layer.n_filters >>

(***************************************************************************)
(* C6: backward of a layer, given the cache its forward returned and a     *)
(* gradient shaped like the forward output, completes.                     *)
(***************************************************************************)
C6_BackwardAcceptsForwardCache ==
    /\ (call.op = "Conv2d.backward" /\ call.as_returned) => call.outcome = "ok"
    /\ call.op = "Pooling.backward" => call.outcome = "ok"
    /\ call.op = "FullyConnected.backward" => call.outcome = "ok"

\* the weights and biases that exist: those of the layer and of the network
Parameters ==
    IF layer.kind \in {"Conv2d", "FullyConnected"} THEN <<layer.W, layer.b, net>>
    ELSE <<net>>

(***************************************************************************)
(* C7: the weights and biases of a layer, and those of the network,        *)
(* change in no step but update_parameters.                                *)
(***************************************************************************)
C7_ParametersChangeOnlyInUpdate ==
    [][Parameters' # Parameters => call'.op = "ConvNet2D.update_parameters"]_vars

\* FullyConnected.backward has returned a non-zero weight gradient, which a
\* gradient step would have applied, and W still is the snapshot that
\* forward_linear put into the cache
C7_Witness ==
    /\ FCBackDone
    /\ \E x \in Idx2(call.ret.dW.shape) : call.ret.dW.v[x] # <<0, 1>>
    /\ layer.W = call.caches.linear_cache.W

(***************************************************************************)
(* C8: Conv2d.forward and Conv2d.backward given an input whose channel     *)
(* count differs from in_channels end in an error.                         *)
(***************************************************************************)
C8_ChannelMismatchRaises ==
    /\ (ConvForwardDone /\ ~ ChannelsMatch) => call.outcome # "ok"
    /\ (call.op = "Conv2d.backward" /\ ~ ChannelsMatch) => call.outcome # "ok"

(***************************************************************************)
(* ConvNet2D(...): what the constructor was given and how it ended.        *)
(***************************************************************************)
\* the four hyperparameter lists have one length
ListsAgree ==
    /\ Len(input.num_filters) = Len(input.filter_sizes)
    /\ Len(input.num_filters) = Len(input.strides)
    /\ Len(input.num_filters) = Len(input.paddings)

\* pooling is off, or has one flag and one size per convolution layer
PoolingAgrees ==
    \/ input.pooling.is_none
    \/ /\ Len(input.pooling.val) = Len(input.num_filters)
       /\ ~ input.pool_size.is_none
       /\ Len(input.pool_size.val) = Len(input.num_filters)

\* the constructor raised with both layer lists still empty
RaisedBeforeAnyLayer ==
    /\ call.outcome # "ok"
    /\ layer.conv_layers = <<>>
    /\ layer.pooling_layers = <<>>

(***************************************************************************)
(* C9: ConvNet2D(...) raises before it builds any layer when the four      *)
(* hyperparameter lists differ in length, and when pooling flags are given *)
(* whose number is not the number of convolution layers; when all lengths  *)
(* agree it never indexes past the end of pooling or pool_size.            *)
(***************************************************************************)
C9_ConstructorValidatesLengths ==
    call.op = "ConvNet2D.__init__" =>
        /\ ~ ListsAgree => RaisedBeforeAnyLayer
        /\ (~ input.pooling.is_none /\ Len(input.pooling.val) # Len(input.num_filters))
              => RaisedBeforeAnyLayer
        /\ (ListsAgree /\ PoolingAgrees) => call.outcome # "IndexError"

\* in - kernel + 2 * pad is negative or no multiple of the stride
BadSpan(size) == Span(size) < 0 \/ Span(size) % layer.hparameters.stride # 0

(***************************************************************************)
(* C10: Conv2d.forward raises, and returns no volume, when in - kernel +   *)
(* 2 pad is negative or no multiple of the stride for the height or width. *)
(***************************************************************************)
C10_BadSizeRaises ==
    (ConvForwardDone /\ (BadSpan(input.shape[2]) \/ BadSpan(input.shape[3])))
        => call.outcome # "ok"

(***************************************************************************)
(* Conv2d.backward: what a call was given.                                 *)
(***************************************************************************)
ConvBackDone == call.op = "Conv2d.backward"

\* the conv_cache (A_prev, W, b, hparameters) in the cache of the call: the
\* first component of the pair that forward returns, or the cache itself
ConvCache == IF call.as_returned THEN call.cache[1] ELSE call.cache

\* the output position p = (i, h, w, c) has a window over the padded cell
\* (r, q) of example i
CoversPadded(p, i, r, q) ==
    LET f == ConvCache[2].shape[1]
        stride == ConvCache[4].stride
    IN  /\ p[1] = i
        /\ p[2] * stride <= r /\ r < p[2] * stride + f
        /\ p[3] * stride <= q /\ q < p[3] * stride + f

\* the sum over the output positions p covering the padded cell of x of
\* W[r + pad - h stride, q + pad - w stride, k, c] * dA[p], for x = (i, r, q, k)
InputGradient(dA, x) ==
    LET W == ConvCache[2]
        stride == ConvCache[4].stride
        pad == ConvCache[4].pad
    IN  SumIntRange([n \in 0 .. Cells(dA.shape) - 1 |->
                        LET p == LoopPos(dA.shape, n)
                        IN  IF CoversPadded(p, x[1], x[2] + pad, x[3] + pad)
                            THEN W.v[<<x[2] + pad - p[2] * stride,
                                       x[3] + pad - p[3] * stride, x[4], p[4]>>] * dA.v[p]
                            ELSE 0],
                    0, Cells(dA.shape) - 1)

\* the sum over the output positions p of channel x[4] of the padded input at
\* the cell x = (a, b, k, c) of the window of p, times dA[p]
FilterGradient(dA, x) ==
    LET A_prev == ConvCache[1]
        stride == ConvCache[4].stride
        pad == ConvCache[4].pad
    IN  SumIntRange([n \in 0 .. Cells(dA.shape) - 1 |->
                        LET p == LoopPos(dA.shape, n)
                            r == p[2] * stride + x[1] - pad
                            q == p[3] * stride + x[2] - pad
                        IN  IF /\ p[4] = x[4]
                               /\ 0 <= r /\ r < A_prev.shape[2]
                               /\ 0 <= q /\ q < A_prev.shape[3]
                            THEN A_prev.v[<<p[1], r, q, x[3]>>] * dA.v[p]
                            ELSE 0],
                    0, Cells(dA.shape) - 1)

\* the sum of dA over the output positions of channel c
BiasGradient(dA, c) ==
    SumInt(dA.v, dA.shape, {p \in Idx4(dA.shape) : p[4] = c})

(***************************************************************************)
(* C11: Conv2d.backward, given the cache of a forward call on a valid      *)
(* input and a gradient shaped like its output, returns an input gradient  *)
(* with the shape of the unpadded input, a filter gradient with the shape  *)
(* of W and a bias gradient with the shape of b, the input gradient at     *)
(* every cell being the sum of W * dA over the windows that cover the      *)
(* cell's place in the padded buffer (the outer pad cells dropped, and the *)
(* whole buffer for pad = 0).                                              *)
(***************************************************************************)
C11_BackwardInputGradient ==
    (ConvBackDone /\ ChannelsMatch /\ SizesFit) =>
        /\ call.outcome = "ok"
        /\ call.ret.dA_prev.shape = ConvCache[1].shape
        /\ call.ret.dW.shape = ConvCache[2].shape
        /\ call.ret.db.shape = ConvCache[3].shape
        /\ \A x \in Idx4(ConvCache[1].shape) :
              call.ret.dA_prev.v[x] = InputGradient(call.dA, x)

(***************************************************************************)
(* C12: Conv2d.backward, given the cache that forward returned, completes  *)
(* and returns the gradients of the upstream gradient times the mask       *)
(* (Z > 0): a position whose cached pre-activation is <= 0 adds nothing to *)
(* the filter gradient, the bias gradient or the input gradient.           *)
(***************************************************************************)
C12_BackwardAppliesReLUMask ==
    (ConvBackDone /\ call.as_returned /\ ChannelsMatch) =>
        LET Z == call.cache[2]
            masked == [shape |-> call.dA.shape,
                       v |-> [p \in Idx4(call.dA.shape) |->
                                IF Z.v[p] > 0 THEN call.dA.v[p] ELSE 0]]
        IN  /\ call.outcome = "ok"
            /\ \A x \in Idx4(ConvCache[1].shape) :
                  call.ret.dA_prev.v[x] = InputGradient(masked, x)
            /\ \A x \in Idx4(ConvCache[2].shape) :
                  call.ret.dW.v[x] = FilterGradient(masked, x)
            /\ \A c \in 0 .. ConvCache[2].shape[4] - 1 :
                  call.ret.db.v[<<0, 0, 0, c>>] = BiasGradient(masked, c)

====
